---- MODULE Spec2Model ----
(***************************************************************************)
(* The product-ranking extraction core of paa-scraper:                     *)
(*   extractor/fetcher.py    fetch_and_clean  (fetch, sanitize, pick root)  *)
(*   extractor/extractor.py  SYSTEM_PROMPT    (the extraction rules)        *)
(*                           extract_products (request, unfence, parse)     *)
(*                                                                         *)
(* Text is a sequence of one-character strings.  Characters that cannot be *)
(* written in a TLA+ string are named: "BQ" is the backquote, "ndash" is   *)
(* U+2013, "mdash" is U+2014, "rsquo" is U+2019, "eacute" is U+00E9,       *)
(* "Eacute" is U+00C9.                                                     *)
(***************************************************************************)
EXTENDS Integers, Sequences, FiniteSets, TLC

VARIABLES
    pc,          \* position of the modelled call
    error,       \* Null, or the exception the call ended with: its type and doc
    \* fetcher.py, fetch_and_clean
    resp,        \* Null, or how client.get(url) ended: timed out, or a status code
    gets,        \* the number of client.get(url) calls issued
    page,        \* the parsed response document (soup), in document order
    cleaned,     \* str(main), as a sequence of markup tokens
    title,       \* the captured page title
    main_topic,  \* page.main_topic of the record extracted from cleaned
    \* extractor.py, SYSTEM_PROMPT: one product container and its product
    h2,          \* text of the first h2 of the container
    title_label, \* Null or the qualifier phrase
    name,        \* product name
    id,          \* slug of the name
    rank,        \* integer of span.rating
    summary,     \* first paragraph after the h2
    pros,        \* li texts of the pros list
    tags,        \* STEP 6
    products,    \* the products of one result, in extraction order
    container,   \* the elements of a page part, each in or outside the product container
    product,     \* pros, cons and summary of the product of the container
    \* extractor.py, extract_products
    environ,     \* whether os.environ holds ANTHROPIC_API_KEY
    _client,     \* the module global: Null, or the client instance it holds
    constructions, \* the number of AsyncAnthropic instances constructed so far
    creates,     \* the number of generation requests the call has sent
    backend,     \* Null for the live backend, or a stub: the answer to each request
    calls,       \* concurrent invocations: the locals of each coroutine
    message,     \* Null, or the response with its content: a list of texts
    result,      \* the returned dict, Null until the call returns
    \* app.py, scrape_people_also_ask
    SERPAPI_KEY, \* the module constant: whether the key is configured
    max_results, \* argument
    expand_questions, \* argument
    results,     \* the list under construction
    seen_questions, \* the set of question texts in results
    tokens_to_expand, \* next_page_token of the initial questions kept
    requests,    \* the next_page_token of each expansion request sent so far
    skipped,     \* the number of expansions the except clause of line 604 skipped
    unread         \* the items of the current response not yet looped over

fetchVars == <<resp, gets, page, cleaned, title, main_topic>>
ruleVars == <<h2, title_label, name, id, rank, summary, pros, tags, products, container, product>>
callVars == <<environ, _client, constructions, creates, backend, calls, message, result>>
paaVars ==
    <<SERPAPI_KEY, max_results, expand_questions, results, seen_questions,
      tokens_to_expand, requests, skipped, unread>>
vars == <<pc, error, fetchVars, ruleVars, callVars, paaVars>>

----------------------------------------------------------------------------
(* Python values and string methods                                        *)

\* None, and a present value
Null == <<>>
Some(v) == <<v>>

\* an exception; doc is the document a JSONDecodeError holds
Raised(type, doc) == [type |-> type, doc |-> doc]

\* str.strip() with no argument strips these
Whitespace == {" ", "\n", "\t", "\r"}

RECURSIVE LStrip(_)
LStrip(s) ==
    IF s # <<>> /\ Head(s) \in Whitespace THEN LStrip(Tail(s)) ELSE s

RECURSIVE RStrip(_)
RStrip(s) ==
    IF s # <<>> /\ s[Len(s)] \in Whitespace
    THEN RStrip(SubSeq(s, 1, Len(s) - 1))
    ELSE s

\* str.strip()
Strip(s) == RStrip(LStrip(s))

\* str.replace(c, "") for a one-character c
RemoveChar(s, c) == SelectSeq(s, LAMBDA x : x # c)

\* sub in s
Contains(s, sub) ==
    \E i \in 1..(Len(s) - Len(sub) + 1) : SubSeq(s, i, i + Len(sub) - 1) = sub

\* s.startswith(prefix)
StartsWith(s, prefix) ==
    Len(s) >= Len(prefix) /\ SubSeq(s, 1, Len(prefix)) = prefix

\* s.endswith(suffix)
EndsWith(s, suffix) ==
    Len(s) >= Len(suffix) /\ SubSeq(s, Len(s) - Len(suffix) + 1, Len(s)) = suffix

----------------------------------------------------------------------------
(* fetcher.py: the document tree                                           *)
(*                                                                         *)
(* A soup is the sequence of its nodes in document order; each node holds  *)
(* its depth below the BeautifulSoup object (depth 0, not in the           *)
(* sequence).  The subtree of node i is i and the nodes that follow it     *)
(* with a greater depth.                                                   *)

STRIP_TAGS ==
    << "script", "style", "noscript", "iframe", "svg",
       "nav", "footer", "header", "aside",
       "form", "input", "button", "select", "textarea" >>

IsString(n) == n.tag \in {"#text", "#comment"}

SubtreeEnd(soup, i) ==
    CHOOSE k \in i..Len(soup) :
        /\ \A m \in (i + 1)..k : soup[m].depth > soup[i].depth
        /\ (k < Len(soup) => soup[k + 1].depth <= soup[i].depth)

InSubtree(soup, i, k) == i <= k /\ k <= SubtreeEnd(soup, i)

\* tag.contents
Children(soup, i) ==
    { k \in (i + 1)..SubtreeEnd(soup, i) : soup[k].depth = soup[i].depth + 1 }

\* the nodes of the sequence whose index is in keep, in order
KeepNodes(soup, keep) ==
    LET F[i \in 0..Len(soup)] ==
            IF i = 0 THEN <<>>
            ELSE IF i \in keep THEN Append(F[i - 1], soup[i]) ELSE F[i - 1]
    IN  F[Len(soup)]

\* for tag in <matched>: tag.decompose()   (comment.extract() for a leaf)
Decompose(soup, matched) ==
    KeepNodes(soup, { k \in 1..Len(soup) :
                        ~ \E i \in matched : InSubtree(soup, i, k) })

\* soup.find_all(tag_name), with the bug of searching the top level only
FindAllByNameShallow(soup, tagName) ==
    { i \in 1..Len(soup) : soup[i].tag = tagName /\ soup[i].depth = 1 }

\* soup.find_all(tag_name)
FindAllByName(soup, tagName) == { i \in 1..Len(soup) : soup[i].tag = tagName }

\* soup.find(name): the first match in document order, 0 for None
Find(soup, tagName) ==
    IF FindAllByName(soup, tagName) = {} THEN 0
    ELSE CHOOSE i \in FindAllByName(soup, tagName) :
            \A j \in FindAllByName(soup, tagName) : i <= j

\* lambda v: v and "display:none" in v.replace(" ", "")
StyleIsHidden(v) ==
    /\ v # Null
    /\ v[1] # <<>>
    /\ Contains(RemoveChar(v[1], " "),
                <<"d", "i", "s", "p", "l", "a", "y", ":", "n", "o", "n", "e">>)

\* for tag_name in STRIP_TAGS: for tag in soup.find_all(tag_name): tag.decompose()
RECURSIVE StripTagsFrom(_, _)
StripTagsFrom(soup, i) ==
    IF i > Len(STRIP_TAGS) THEN soup
    ELSE StripTagsFrom(Decompose(soup, FindAllByName(soup, STRIP_TAGS[i])), i + 1)

RemoveComments(soup) ==
    Decompose(soup, { i \in 1..Len(soup) : soup[i].tag = "#comment" })

RemoveHidden(soup) ==
    LET styled == Decompose(soup, { i \in 1..Len(soup) : StyleIsHidden(soup[i].style) })
    IN  Decompose(styled, { i \in 1..Len(styled) : styled[i].hidden })

\* the soup after the three removal passes
Sanitized(soup) == RemoveHidden(RemoveComments(StripTagsFrom(soup, 1)))

\* tag.string
RECURSIVE StringOf(_, _)
StringOf(soup, i) ==
    IF IsString(soup[i]) THEN Some(soup[i].text)
    ELSE IF Cardinality(Children(soup, i)) # 1 THEN Null
    ELSE StringOf(soup, CHOOSE k \in Children(soup, i) : TRUE)

\* soup.title.string.strip() if soup.title and soup.title.string else ""
PageTitle(soup) ==
    LET t == Find(soup, "title") IN
    IF t # 0 /\ StringOf(soup, t) # Null /\ StringOf(soup, t)[1] # <<>>
    THEN Strip(StringOf(soup, t)[1])
    ELSE <<>>

\* the root chosen with article before main
ContentRootArticleFirst(soup) ==
    IF Find(soup, "article") # 0 THEN Find(soup, "article")
    ELSE IF Find(soup, "main") # 0 THEN Find(soup, "main")
    ELSE Find(soup, "body")

\* soup.find("main") or soup.find("article") or soup.find("body") or soup
ContentRoot(soup) ==
    IF Find(soup, "main") # 0 THEN Find(soup, "main")
    ELSE IF Find(soup, "article") # 0 THEN Find(soup, "article")
    ELSE Find(soup, "body")

Token(kind, n) ==
    [k |-> kind, tag |-> n.tag, style |-> n.style, hidden |-> n.hidden, text |-> n.text]

\* str(tag): start tag, contents, end tag; a string or comment is one token
RECURSIVE Markup(_, _, _)
Markup(soup, i, open) ==
    IF open # <<>> /\ (i > Len(soup) \/ open[Len(open)].depth >= soup[i].depth)
    THEN <<Token("close", open[Len(open)])>>
            \o Markup(soup, i, SubSeq(open, 1, Len(open) - 1))
    ELSE IF i > Len(soup) THEN <<>>
    ELSE IF soup[i].tag = "#text" THEN <<Token("text", soup[i])>> \o Markup(soup, i + 1, open)
    ELSE IF soup[i].tag = "#comment"
        THEN <<Token("comment", soup[i])>> \o Markup(soup, i + 1, open)
    ELSE <<Token("open", soup[i])>> \o Markup(soup, i + 1, Append(open, soup[i]))

\* cleaned = str(main)
CleanedMarkup(soup) ==
    LET s == Sanitized(soup)
        r == ContentRoot(s)
    IN  IF r = 0 THEN Markup(s, 1, <<>>)
        ELSE Markup(SubSeq(s, r, SubtreeEnd(s, r)), 1, <<>>)

----------------------------------------------------------------------------
(* extractor.py, SYSTEM_PROMPT: MAIN_TOPIC RULE, applied by the backend to *)
(* the markup it is sent                                                   *)

FirstOpen(toks, tagName) ==
    LET hits == { i \in 1..Len(toks) : toks[i].k = "open" /\ toks[i].tag = tagName }
    IN  IF hits = {} THEN 0 ELSE CHOOSE i \in hits : \A j \in hits : i <= j

\* the end tag that closes the start tag at i
MatchingClose(toks, i) ==
    LET opens(j) == Cardinality({ m \in i..j : toks[m].k = "open" })
        closes(j) == Cardinality({ m \in i..j : toks[m].k = "close" })
    IN  CHOOSE j \in i..Len(toks) :
            /\ opens(j) = closes(j)
            /\ \A m \in i..(j - 1) : opens(m) # closes(m)

\* textContent of the element whose start tag is at i
TextContent(toks, i) ==
    LET F[j \in i..MatchingClose(toks, i)] ==
            IF j = i THEN <<>>
            ELSE IF toks[j].k = "text" THEN F[j - 1] \o toks[j].text ELSE F[j - 1]
    IN  F[MatchingClose(toks, i)]

MainTopic(toks) ==
    IF FirstOpen(toks, "h1") # 0 THEN Strip(TextContent(toks, FirstOpen(toks, "h1")))
    ELSE IF FirstOpen(toks, "title") # 0
        THEN Strip(TextContent(toks, FirstOpen(toks, "title")))
    ELSE <<>>

----------------------------------------------------------------------------
(* Characters                                                              *)

UPPER ==
    <<"A", "B", "C", "D", "E", "F", "G", "H", "I", "J", "K", "L", "M", "N", "O", "P",
      "Q", "R", "S", "T", "U", "V", "W", "X", "Y", "Z", "Eacute", "Euml", "Ouml", "Uuml">>

LOWER ==
    <<"a", "b", "c", "d", "e", "f", "g", "h", "i", "j", "k", "l", "m", "n", "o", "p",
      "q", "r", "s", "t", "u", "v", "w", "x", "y", "z", "eacute", "euml", "ouml", "uuml">>

DigitChars == <<"0", "1", "2", "3", "4", "5", "6", "7", "8", "9">>

Range(s) == { s[i] : i \in DOMAIN s }

\* one character of str.lower()
Lower(c) ==
    IF c \in Range(UPPER) THEN LOWER[CHOOSE i \in DOMAIN UPPER : UPPER[i] = c] ELSE c

\* str.lower()
LowerCase(s) == [i \in 1..Len(s) |-> Lower(s[i])]

IsAlnum(c) == c \in Range(SubSeq(LOWER, 1, 26)) \cup Range(SubSeq(UPPER, 1, 26)) \cup Range(DigitChars)

\* s.replace(c, rep) for a one-character c
ReplaceChar(s, c, rep) ==
    LET F[i \in 0..Len(s)] ==
            IF i = 0 THEN <<>>
            ELSE F[i - 1] \o (IF s[i] = c THEN rep ELSE <<s[i]>>)
    IN  F[Len(s)]

\* str(k) for k >= 0
RECURSIVE Decimal(_)
Decimal(k) ==
    IF k < 10 THEN <<DigitChars[k + 1]>>
    ELSE Decimal(k \div 10) \o <<DigitChars[(k % 10) + 1]>>

----------------------------------------------------------------------------
(* extractor.py, SYSTEM_PROMPT, STEP 3: GENERATE STABLE ID                 *)

\* 1-5: "/", ".", "_" to "-", "&" to "en", apostrophes and curly quotes removed
Replacements(s) ==
    LET s1 == ReplaceChar(s, "/", <<"-">>)
        s2 == ReplaceChar(s1, ".", <<"-">>)
        s3 == ReplaceChar(s2, "_", <<"-">>)
        s4 == ReplaceChar(s3, "&", <<"e", "n">>)
    IN  SelectSeq(s4, LAMBDA c : c \notin {"'", "lsquo", "rsquo"})

\* 7: accented characters to plain equivalents
Unaccent(s) ==
    [i \in 1..Len(s) |->
        CASE s[i] \in {"eacute", "euml"} -> "e"
          [] s[i] = "ouml" -> "o"
          [] s[i] = "uuml" -> "u"
          [] OTHER -> s[i]]

\* 8: remove what is not alphanumeric, a space or a hyphen
KeepSlugChars(s) == SelectSeq(s, LAMBDA c : IsAlnum(c) \/ c \in {" ", "-"})

\* 10: collapse consecutive hyphens
CollapseHyphens(s) ==
    LET F[i \in 0..Len(s)] ==
            IF i = 0 THEN <<>>
            ELSE IF s[i] = "-" /\ i > 1 /\ s[i - 1] = "-" THEN F[i - 1]
            ELSE Append(F[i - 1], s[i])
    IN  F[Len(s)]

\* 11: trim leading and trailing hyphens
RECURSIVE TrimHyphens(_)
TrimHyphens(s) ==
    IF s # <<>> /\ Head(s) = "-" THEN TrimHyphens(Tail(s))
    ELSE IF s # <<>> /\ s[Len(s)] = "-" THEN TrimHyphens(SubSeq(s, 1, Len(s) - 1))
    ELSE s

\* the steps with step 8 taken first
SlugRemovingFirst(s) ==
    TrimHyphens(CollapseHyphens(ReplaceChar(
        Unaccent(LowerCase(Replacements(KeepSlugChars(s)))), " ", <<"-">>)))

\* steps 1-11 in order
Slug(s) ==
    TrimHyphens(CollapseHyphens(ReplaceChar(
        KeepSlugChars(Unaccent(LowerCase(Replacements(s)))), " ", <<"-">>)))

\* the suffix taken from the number of ids already given out
AssignIdCountingAll(prods, productName) ==
    IF \E i \in DOMAIN prods : Slug(prods[i].name) = Slug(productName)
    THEN Slug(productName) \o <<"-">> \o Decimal(Len(prods) + 1)
    ELSE Slug(productName)

\* If a duplicate id occurs, append "-2", "-3", etc.
AssignId(prods, productName) ==
    LET k == 1 + Cardinality({ i \in DOMAIN prods : Slug(prods[i].name) = Slug(productName) })
    IN  IF k = 1 THEN Slug(productName)
        ELSE Slug(productName) \o <<"-">> \o Decimal(k)

----------------------------------------------------------------------------
(* extractor.py, SYSTEM_PROMPT, STEP 2: EXTRACT TITLE & LABEL              *)

\* " ndash " or " - " (dash with spaces)
Dashes == {"ndash", "-"}

\* "De beste", "Beste", "Premium", "Budget", "Onze keuze", "Aanrader"
QUALIFIERS ==
    << <<"D", "e", " ", "b", "e", "s", "t", "e">>,
       <<"B", "e", "s", "t", "e">>,
       <<"P", "r", "e", "m", "i", "u", "m">>,
       <<"B", "u", "d", "g", "e", "t">>,
       <<"O", "n", "z", "e", " ", "k", "e", "u", "z", "e">>,
       <<"A", "a", "n", "r", "a", "d", "e", "r">> >>

DashAt(h, i) == i + 2 <= Len(h) /\ h[i] = " " /\ h[i + 1] \in Dashes /\ h[i + 2] = " "

\* position of the first dash with spaces at or after i, 0 when there is none
RECURSIVE FirstDashFrom(_, _)
FirstDashFrom(h, i) ==
    IF i + 2 > Len(h) THEN 0
    ELSE IF DashAt(h, i) THEN i
    ELSE FirstDashFrom(h, i + 1)

\* position of the last dash with spaces at or before i, 0 when there is none
RECURSIVE LastDashFrom(_, _)
LastDashFrom(h, i) ==
    IF i < 1 THEN 0
    ELSE IF DashAt(h, i) THEN i
    ELSE LastDashFrom(h, i - 1)

\* left starts with any of the qualifiers (case-insensitive)
HasQualifier(left) ==
    \E q \in DOMAIN QUALIFIERS : StartsWith(LowerCase(left), LowerCase(QUALIFIERS[q]))

SplitAt(h, i) ==
    LET left == Strip(SubSeq(h, 1, i - 1))
        right == Strip(SubSeq(h, i + 3, Len(h)))
    IN  IF i # 0 /\ HasQualifier(left)
        THEN [title_label |-> Some(left), name |-> right]
        ELSE [title_label |-> Null, name |-> Strip(h)]

\* the split taken at the last dash with spaces
SplitTitleAtLast(h) == SplitAt(h, LastDashFrom(h, Len(h)))

\* title_label and name of the h2 text
SplitTitle(h) == SplitAt(h, FirstDashFrom(h, 1))

----------------------------------------------------------------------------
(* extractor.py, SYSTEM_PROMPT, STEP 6: TAGGING                            *)

\* "prijs-kwaliteit", "beste koop", "sterkste keuze binnen",
\* "beste keuze voor je geld"
VALUE_PHRASES ==
    << <<"p", "r", "i", "j", "s", "-", "k", "w", "a", "l", "i", "t", "e", "i", "t">>,
       <<"b", "e", "s", "t", "e", " ", "k", "o", "o", "p">>,
       <<"s", "t", "e", "r", "k", "s", "t", "e", " ", "k", "e", "u", "z", "e", " ", "b", "i", "n", "n", "e", "n">>,
       <<"b", "e", "s", "t", "e", " ", "k", "e", "u", "z", "e", " ", "v", "o", "o", "r", " ", "j", "e", " ", "g", "e", "l", "d">> >>

\* sub appears in s (case-insensitive)
ContainsCI(s, sub) == Contains(LowerCase(s), LowerCase(sub))

HasValuePhrase(s) == \E p \in DOMAIN VALUE_PHRASES : ContainsCI(s, VALUE_PHRASES[p])

TagsBy(r, label, valueTexts) ==
    LET t0 == <<>>
        t1 == IF r = 1 THEN Append(t0, "best_overall") ELSE t0
        t2 == IF label # Null /\ ContainsCI(label[1], <<"b", "u", "d", "g", "e", "t">>)
              THEN Append(t1, "budget_pick") ELSE t1
        t3 == IF label # Null
                   /\ (\/ ContainsCI(label[1], <<"l", "u", "x", "e">>)
                       \/ ContainsCI(label[1], <<"p", "r", "e", "m", "i", "u", "m">>))
              THEN Append(t2, "premium_pick") ELSE t2
    IN  IF \E i \in DOMAIN valueTexts : HasValuePhrase(valueTexts[i])
        THEN Append(t3, "best_value") ELSE t3

\* Rule 4 reading the title_label and the summary but not the pros
TaggingWithoutPros(r, label, text, bullets) == TagsBy(r, label, label \o <<text>>)

\* Rules 1-4 in order
Tagging(r, label, text, bullets) == TagsBy(r, label, label \o <<text>> \o bullets)

----------------------------------------------------------------------------
(* extractor.py: extract_products, from the response to the return         *)

\* the fence marker: three backquotes
FENCE == <<"BQ", "BQ", "BQ">>

\* raw.split("\n", 1): the position of the first newline, 0 when there is none
FirstNewline(s) ==
    IF "\n" \notin Range(s) THEN 0
    ELSE CHOOSE i \in 1..Len(s) : s[i] = "\n" /\ \A j \in 1..(i - 1) : s[j] # "\n"

\* json.loads on texts of digits, braces and whitespace: a number is a run of
\* digits, an object is "{" whitespace "}", whitespace may surround the value
JsonLoads(s) ==
    LET t == Strip(s) IN
    IF t # <<>> /\ \A i \in 1..Len(t) : t[i] \in Range(DigitChars)
    THEN [ok |-> TRUE, value |-> [type |-> "int", digits |-> t]]
    ELSE IF /\ Len(t) >= 2 /\ t[1] = "{" /\ t[Len(t)] = "}"
            /\ \A i \in 2..(Len(t) - 1) : t[i] \in Whitespace
        THEN [ok |-> TRUE, value |-> [type |-> "dict", digits |-> <<>>]]
    ELSE [ok |-> FALSE, value |-> Null]

Returns(value) == [result |-> Some(value), error |-> Null]
Raises(type, doc) == [result |-> Null, error |-> Some(Raised(type, doc))]

LoadOrRaise(raw) ==
    IF JsonLoads(raw).ok THEN Returns(JsonLoads(raw).value)
    ELSE Raises("JSONDecodeError", raw)

AfterFence(raw) ==
    LET rest == SubSeq(raw, FirstNewline(raw) + 1, Len(raw))
        body == IF EndsWith(rest, FENCE) THEN SubSeq(rest, 1, Len(rest) - 3) ELSE rest
    IN  IF FirstNewline(raw) = 0 THEN Raises("IndexError", Null)
        ELSE LoadOrRaise(Strip(body))

\* AsyncAnthropic(api_key=...) with no max_retries: the client's default
DEFAULT_MAX_RETRIES == 2

\* _get_client() that constructs a client on every call
GetClientUncached(c, env, n) ==
    IF env THEN [_client |-> Some(n + 1), constructions |-> n + 1, raised |-> FALSE]
    ELSE [_client |-> c, constructions |-> n, raised |-> TRUE]

\* _get_client() whose cached client cannot serve a second call
GetClientSingleUse(c, env, n) ==
    IF c = Null /\ env
    THEN [_client |-> Some(n + 1), constructions |-> n + 1, raised |-> FALSE]
    ELSE [_client |-> c, constructions |-> n, raised |-> TRUE]

\* lines 165-169, _get_client(): c is the global, env whether os.environ
\* holds the key, n the instances constructed so far; raised is the KeyError
\* of os.environ["ANTHROPIC_API_KEY"], which leaves the global as it was
GetClient(c, env, n) ==
    IF c # Null THEN [_client |-> c, constructions |-> n, raised |-> FALSE]
    ELSE IF env THEN [_client |-> Some(n + 1), constructions |-> n + 1, raised |-> FALSE]
    ELSE [_client |-> c, constructions |-> n, raised |-> TRUE]

\* lines 188-197 without the strip() of line 188
ParseUnstripped(blocks) ==
    IF blocks = <<>> THEN Raises("IndexError", Null)
    ELSE IF StartsWith(blocks[1], FENCE) THEN AfterFence(blocks[1])
    ELSE LoadOrRaise(blocks[1])

\* lines 188-197: what the call returns or raises for message.content
Parse(blocks) ==
    IF blocks = <<>> THEN Raises("IndexError", Null)
    ELSE IF StartsWith(Strip(blocks[1]), FENCE) THEN AfterFence(Strip(blocks[1]))
    ELSE LoadOrRaise(Strip(blocks[1]))

----------------------------------------------------------------------------
(* Response documents                                                      *)

\* nodes of a response document besides the BeautifulSoup object
MaxNodes == 3

PageTags == {"script", "nav", "header", "div", "main", "article", "body", "h1", "title"}

Element(tag, style, hidden) ==
    [tag |-> tag, style |-> style, hidden |-> hidden, text |-> <<>>]

\* style="display: none"
DisplayNoneStyle ==
    <<"d", "i", "s", "p", "l", "a", "y", ":", " ", "n", "o", "n", "e">>

NodeKinds ==
    { Element(t, Null, FALSE) : t \in PageTags }
        \cup { Element("div", Some(DisplayNoneStyle), FALSE),
               Element("div", Null, TRUE),
               Element("#text", Null, FALSE),
               Element("#comment", Null, FALSE) }

\* the text of the string at position i: distinct strings have distinct text
TextChars == <<"p", "q", "r", "s", "t", "u", "v", "w", "x", "y">>

NodeAt(kind, depth, i) ==
    [tag |-> kind.tag, style |-> kind.style, hidden |-> kind.hidden, depth |-> depth,
     text |-> IF IsString(kind) THEN <<" ", TextChars[i]>> ELSE <<>>]

\* the element a node appended at this depth becomes a child of, 0 for the soup
ParentAtDepth(soup, depth) ==
    IF depth = 1 THEN 0
    ELSE CHOOSE j \in 1..Len(soup) :
            /\ soup[j].depth = depth - 1
            /\ \A m \in (j + 1)..Len(soup) : soup[m].depth >= depth

\* html.parser: a string has no children, the content of script and of title
\* is one string, and adjacent strings are one string
Extensions(soup) ==
    LET last == soup[Len(soup)]
        depths == IF soup = <<>> THEN {1}
                  ELSE 1..(last.depth + (IF IsString(last) THEN 0 ELSE 1))
        fits(kind, d) ==
            LET p == ParentAtDepth(soup, d) IN
            /\ (p # 0 /\ soup[p].tag \in {"script", "title"}) => kind.tag = "#text"
            /\ (soup # <<>> /\ last.tag = "#text" /\ last.depth = d) => kind.tag # "#text"
    IN  { Append(soup, NodeAt(kd[1], kd[2], Len(soup) + 1)) :
            kd \in { x \in NodeKinds \X depths : fits(x[1], x[2]) } }

----------------------------------------------------------------------------
(* fetch_and_clean, then extract_products on its markup                    *)

FetchErrors == {"HTTPStatusError", "TimeoutException"}

\* scrape_people_also_ask is not running
PaaIdle ==
    /\ SERPAPI_KEY = TRUE /\ max_results = 0 /\ expand_questions = TRUE
    /\ results = <<>> /\ seen_questions = {} /\ tokens_to_expand = <<>>
    /\ requests = <<>> /\ skipped = 0 /\ unread = 0

\* final status codes of a fetch that follows redirects
StatusCodes == {200, 304, 404}

\* raise_for_status() of a client with the rule of raising from 400 on
IsSuccessBelow400(status_code) == status_code < 400

\* httpx Response.is_success, the test of raise_for_status()
IsSuccess(status_code) == 200 <= status_code /\ status_code <= 299

\* how client.get(url) ended
TimedOut == [timed_out |-> TRUE, status_code |-> 0]
Answered(status_code) == [timed_out |-> FALSE, status_code |-> status_code]

FetchIdle ==
    /\ resp = Null /\ gets = 0
    /\ page = <<>> /\ cleaned = <<>> /\ title = <<>> /\ main_topic = <<>>

\* no container read, no field extracted
ContainerIdle ==
    /\ container = <<>>
    /\ product = [pros |-> Null, cons |-> Null, summary |-> Null]

RuleIdle ==
    /\ h2 = <<>> /\ title_label = Null /\ name = <<>> /\ id = <<>>
    /\ rank = 0 /\ summary = <<>> /\ pros = <<>> /\ tags = <<>> /\ products = <<>>
    /\ ContainerIdle

CallIdle ==
    /\ environ = TRUE /\ _client = Null /\ constructions = 0
    /\ creates = 0 /\ backend = Null /\ calls = <<>>
    /\ message = Null /\ result = Null

PipelineInit ==
    /\ pc = "fetch"
    /\ error = Null
    /\ PaaIdle
    /\ FetchIdle
    /\ RuleIdle
    /\ CallIdle

\* the response document, one node at a time
ServeNode ==
    /\ pc = "fetch"
    /\ Len(page) < MaxNodes
    /\ page' \in Extensions(page)
    /\ UNCHANGED <<paaVars, pc, error, resp, gets, cleaned, title, main_topic, ruleVars, callVars>>

\* fetcher.py: the response is successful
FetchAndClean ==
    /\ pc = "fetch"
    /\ \E c \in StatusCodes : IsSuccess(c) /\ resp' = Some(Answered(c))
    /\ gets' = gets + 1
    /\ cleaned' = CleanedMarkup(page)
    /\ title' = PageTitle(page)
    /\ pc' = "cleaned"
    /\ UNCHANGED <<paaVars, error, page, main_topic, ruleVars, callVars>>

\* fetcher.py: client.get times out, or resp.raise_for_status() raises
FetchRaises ==
    /\ pc = "fetch"
    /\ \/ resp' = Some(TimedOut) /\ error' = Some(Raised("TimeoutException", Null))
       \/ \E c \in StatusCodes :
            /\ ~ IsSuccess(c)
            /\ resp' = Some(Answered(c))
            /\ error' = Some(Raised("HTTPStatusError", Null))
    /\ gets' = gets + 1
    /\ pc' = "raised"
    /\ UNCHANGED <<paaVars, page, cleaned, title, main_topic, ruleVars, callVars>>

\* extractor.py: extract_products(cleaned, url) with a backend that follows
\* the MAIN_TOPIC RULE on the markup of the user message
ExtractMainTopic ==
    /\ pc = "cleaned"
    /\ main_topic' = MainTopic(cleaned)
    /\ pc' = "extracted"
    /\ UNCHANGED <<paaVars, error, resp, gets, page, cleaned, title, ruleVars, callVars>>

PipelineNext == ServeNode \/ FetchAndClean \/ FetchRaises \/ ExtractMainTopic

SpecPipeline == PipelineInit /\ [][PipelineNext]_vars

----------------------------------------------------------------------------
(* Properties of the pipeline                                              *)

StrippedKinds == { STRIP_TAGS[i] : i \in DOMAIN STRIP_TAGS }

\* an inline style that, spaces ignored, contains display:none
CarriesDisplayNone(style) ==
    /\ style # Null
    /\ \E i \in 1..Len(style[1]) : \E j \in i..Len(style[1]) :
            RemoveChar(SubSeq(style[1], i, j), " ")
                = <<"d", "i", "s", "p", "l", "a", "y", ":", "n", "o", "n", "e">>

AncestorsOrSelf(soup, j) == { a \in 1..j : InSubtree(soup, a, j) }

\* the node is, or lies in, an element that sanitization is to remove
InRemovedBlock(soup, j) ==
    \E a \in AncestorsOrSelf(soup, j) :
        \/ soup[a].tag \in StrippedKinds
        \/ soup[a].hidden
        \/ CarriesDisplayNone(soup[a].style)

\* C1: the cleaned markup holds, at any depth, no element of a stripped kind,
\* no comment and no element that is hidden by attribute or by an inline
\* display:none; the text of a string inside such a block is not in it.
C1_NoChromeInCleaned ==
    pc \in {"cleaned", "extracted"} =>
        /\ \A i \in 1..Len(cleaned) :
                /\ cleaned[i].tag \notin StrippedKinds
                /\ cleaned[i].k # "comment"
                /\ ~ cleaned[i].hidden
                /\ ~ CarriesDisplayNone(cleaned[i].style)
        /\ \A j \in 1..Len(page) :
                (IsString(page[j]) /\ InRemovedBlock(page, j)) =>
                    \A i \in 1..Len(cleaned) : cleaned[i].text # page[j].text

\* C1 witness: a script or nav with text, nested in an element that is kept
C1_Witness ==
    /\ pc = "cleaned"
    /\ cleaned # <<>>
    /\ \E i \in 1..Len(page) :
            /\ page[i].tag \in {"script", "nav"}
            /\ page[i].depth >= 2
            /\ \E j \in Children(page, i) : page[j].tag = "#text"

\* textContent of element i of the response document
ElementText(soup, i) ==
    LET F[j \in i..SubtreeEnd(soup, i)] ==
            IF j = i THEN <<>>
            ELSE IF soup[j].tag = "#text" THEN F[j - 1] \o soup[j].text ELSE F[j - 1]
    IN  F[SubtreeEnd(soup, i)]

\* the element is not inside a block hidden by attribute or style, and holds
\* nothing but text
PlainVisible(soup, i) ==
    /\ \A a \in AncestorsOrSelf(soup, i) :
            ~ soup[a].hidden /\ ~ CarriesDisplayNone(soup[a].style)
    /\ \A j \in (i + 1)..SubtreeEnd(soup, i) : soup[j].tag = "#text"

\* C2: through fetch_and_clean and extract_products, a page with an H1 yields
\* main_topic = the H1 text wherever the H1 sits, and a page with only a
\* title yields main_topic = the title text.
C2_MainTopicIsH1ElseTitle ==
    pc = "extracted" =>
        LET h == Find(page, "h1")
            t == Find(page, "title")
        IN  /\ (h # 0 /\ PlainVisible(page, h)) => main_topic = Strip(ElementText(page, h))
            /\ (h = 0 /\ t # 0 /\ PlainVisible(page, t))
                    => main_topic = Strip(ElementText(page, t))

\* C11: when the response is not successful or the transfer timed out, the
\* call has raised an httpx error (the FetchError of the taxonomy), nothing was
\* sanitized and no (cleaned, title) pair exists.
C11_FailedFetchRaises ==
    (resp # Null /\ (resp[1].timed_out \/ resp[1].status_code \notin 200..299)) =>
        /\ pc = "raised"
        /\ error # Null
        /\ error[1].type \in FetchErrors
        /\ cleaned = <<>> /\ title = <<>> /\ main_topic = <<>>

\* C11 witness: a 304 with a body has raised
C11_Witness ==
    /\ pc = "raised"
    /\ resp = Some(Answered(304))
    /\ page # <<>>
    /\ error = Some(Raised("HTTPStatusError", Null))

\* a node that the removal passes take out: in a removed block, or a comment
Removed(soup, k) == InRemovedBlock(soup, k) \/ soup[k].tag = "#comment"

\* the first element of that name which no removal takes out, 0 if none
FirstRemaining(soup, tagName) ==
    LET R == { i \in 1..Len(soup) : soup[i].tag = tagName /\ ~ Removed(soup, i) }
    IN  IF R = {} THEN 0 ELSE CHOOSE i \in R : \A j \in R : i <= j

RootAsStated(soup) ==
    IF FirstRemaining(soup, "main") # 0 THEN FirstRemaining(soup, "main")
    ELSE IF FirstRemaining(soup, "article") # 0 THEN FirstRemaining(soup, "article")
    ELSE FirstRemaining(soup, "body")

\* the markup of what remains of the subtree of r (of the document for r = 0)
SerializedFrom(soup, r) ==
    LET span == IF r = 0 THEN 1..Len(soup) ELSE r..SubtreeEnd(soup, r)
    IN  Markup(KeepNodes(soup, { k \in span : ~ Removed(soup, k) }), 1, <<>>)

\* C14: the cleaned markup is the serialization of the first remaining main,
\* else the first remaining article, else body, else the document; when every
\* main and article went with a removed block, neither is in the markup.
C14_RootByFirstMatchAfterRemovals ==
    pc \in {"cleaned", "extracted"} =>
        /\ cleaned = SerializedFrom(page, RootAsStated(page))
        /\ (\A i \in 1..Len(page) :
                page[i].tag \in {"main", "article"} => InRemovedBlock(page, i))
            => \A t \in 1..Len(cleaned) : cleaned[t].tag \notin {"main", "article"}

\* C14 witness: a main that went with its nav, and an article that is the root
C14_Witness ==
    /\ pc = "cleaned"
    /\ \E i \in 1..Len(page) :
            page[i].tag = "main" /\ \E a \in 1..(i - 1) :
                page[a].tag = "nav" /\ InSubtree(page, a, i)
    /\ cleaned # <<>>
    /\ cleaned[1].tag = "article"

----------------------------------------------------------------------------
(* STEP 3 on one name                                                      *)

\* characters of a name
MaxNameLen == 3

SlugChars == {"A", "b", "7", "Eacute", " ", "-", "/", ".", "_", "&", "'", "!"}

\* "Philips LatteGo 5500 EP5543/90"
PhilipsName ==
    <<"P", "h", "i", "l", "i", "p", "s", " ", "L", "a", "t", "t", "e", "G", "o", " ",
      "5", "5", "0", "0", " ", "E", "P", "5", "5", "4", "3", "/", "9", "0">>

\* "De'Longhi Eletta Explore ECAM450.65.G"
DeLonghiName ==
    <<"D", "e", "'", "L", "o", "n", "g", "h", "i", " ", "E", "l", "e", "t", "t", "a",
      " ", "E", "x", "p", "l", "o", "r", "e", " ", "E", "C", "A", "M", "4", "5", "0",
      ".", "6", "5", ".", "G">>

SlugNames ==
    UNION { [1..n -> SlugChars] : n \in 0..MaxNameLen } \cup {PhilipsName, DeLonghiName}

SlugInit ==
    /\ pc = "name"
    /\ error = Null
    /\ PaaIdle
    /\ FetchIdle
    /\ CallIdle
    /\ h2 = <<>> /\ title_label = Null /\ id = <<>>
    /\ rank = 0 /\ summary = <<>> /\ pros = <<>> /\ tags = <<>> /\ products = <<>>
    /\ ContainerIdle
    /\ name \in SlugNames

GenerateId ==
    /\ pc = "name"
    /\ id' = Slug(name)
    /\ pc' = "id"
    /\ UNCHANGED <<paaVars, error, fetchVars, callVars,
                   h2, title_label, name, rank, summary, pros, tags, products,
                   container, product>>

SlugNext == GenerateId

SpecSlug == SlugInit /\ [][SlugNext]_vars

----------------------------------------------------------------------------
(* STEP 3 over the products of one result                                  *)

\* products of one result
MaxProducts == 3

\* "Budget Pick", "budget_pick", "A", "A-2", "!"
ProductNames ==
    { <<"B", "u", "d", "g", "e", "t", " ", "P", "i", "c", "k">>,
      <<"b", "u", "d", "g", "e", "t", "_", "p", "i", "c", "k">>,
      <<"A">>, <<"A", "-", "2">>, <<"!">> }

IdsInit ==
    /\ pc = "products"
    /\ error = Null
    /\ PaaIdle
    /\ FetchIdle
    /\ CallIdle
    /\ RuleIdle

\* the next span.rating in document order: its product gets its id
ExtractProduct ==
    /\ pc = "products"
    /\ Len(products) < MaxProducts
    /\ \E productName \in ProductNames :
            products' = Append(products, [name |-> productName,
                                         id |-> AssignId(products, productName)])
    /\ UNCHANGED <<paaVars, pc, error, fetchVars, callVars,
                   h2, title_label, name, id, rank, summary, pros, tags,
                   container, product>>

IdsNext == ExtractProduct

SpecIds == IdsInit /\ [][IdsNext]_vars

----------------------------------------------------------------------------
(* Properties of STEP 3                                                    *)

\* "philips-lattego-5500-ep5543-90"
PhilipsSlug ==
    <<"p", "h", "i", "l", "i", "p", "s", "-", "l", "a", "t", "t", "e", "g", "o", "-",
      "5", "5", "0", "0", "-", "e", "p", "5", "5", "4", "3", "-", "9", "0">>

\* "delonghi-eletta-explore-ecam450-65-g"
DeLonghiSlug ==
    <<"d", "e", "l", "o", "n", "g", "h", "i", "-", "e", "l", "e", "t", "t", "a", "-",
      "e", "x", "p", "l", "o", "r", "e", "-", "e", "c", "a", "m", "4", "5", "0", "-",
      "6", "5", "-", "g">>

\* what one character of a name contributes to the slug
Contribution(c) ==
    IF c \in {"/", ".", "_", " ", "-"} THEN <<"-">>
    ELSE IF c = "&" THEN <<"e", "n">>
    ELSE IF IsAlnum(c) \/ Lower(c) \in {"eacute", "euml", "ouml", "uuml"}
        THEN Unaccent(<<Lower(c)>>)
    ELSE <<>>

\* the contributions in order, a hyphen only between two kept characters
JoinedWords(s) ==
    LET F[i \in 0..Len(s)] ==
            IF i = 0 THEN <<>>
            ELSE IF Contribution(s[i]) = <<"-">>
                THEN IF F[i - 1] = <<>> \/ F[i - 1][Len(F[i - 1])] = "-"
                     THEN F[i - 1] ELSE Append(F[i - 1], "-")
            ELSE F[i - 1] \o Contribution(s[i])
        r == F[Len(s)]
    IN  IF r # <<>> /\ r[Len(r)] = "-" THEN SubSeq(r, 1, Len(r) - 1) ELSE r

\* C5: the slug is the result of the replacements, lowercasing, unaccenting,
\* removal, space-to-hyphen, collapsing and trimming in that order: separators
\* become single hyphens between the kept lowercase characters, "&" reads
\* "en", everything else is dropped; the two example names give their slugs.
C5_SlugOfName ==
    pc = "id" =>
        /\ id = JoinedWords(name)
        /\ (name = PhilipsName => id = PhilipsSlug)
        /\ (name = DeLonghiName => id = DeLonghiSlug)

\* C5 witness: the slug of the De'Longhi example has been generated
C5_Witness == pc = "id" /\ name = DeLonghiName /\ id = DeLonghiSlug

SlugOf(p) == Slug(p.name)

\* [a-z0-9]+(-[a-z0-9]+)*
WellFormedId(s) ==
    /\ s # <<>>
    /\ \A i \in 1..Len(s) : s[i] \in Range(SubSeq(LOWER, 1, 26)) \cup Range(DigitChars) \cup {"-"}
    /\ s[1] # "-"
    /\ s[Len(s)] # "-"
    /\ \A i \in 1..(Len(s) - 1) : ~ (s[i] = "-" /\ s[i + 1] = "-")

\* C3: no two products of one result share an id.
C3_IdsPairwiseDistinct ==
    \A i \in DOMAIN products : \A j \in DOMAIN products :
        i # j => products[i].id # products[j].id

\* C4: every id is non-empty, matches [a-z0-9]+(-[a-z0-9]+)* and has no leading,
\* trailing or double hyphen.
C4_IdsWellFormed == \A i \in DOMAIN products : WellFormedId(products[i].id)

\* C6: of the products that slugify to the same value s, the first keeps s and
\* the k-th (k >= 2) gets s-k.
C6_KthDuplicateGetsSuffixK ==
    \A j \in DOMAIN products :
        LET k == Cardinality({ i \in 1..j : SlugOf(products[i]) = SlugOf(products[j]) })
        IN  products[j].id =
                IF k = 1 THEN SlugOf(products[j])
                ELSE SlugOf(products[j]) \o <<"-">> \o Decimal(k)

\* C6 witness: "Budget Pick" then "budget_pick" got budget-pick and budget-pick-2,
\* after a product with another slug
C6_Witness ==
    /\ Len(products) = 3
    /\ SlugOf(products[1]) # SlugOf(products[2])
    /\ products[2].id = <<"b", "u", "d", "g", "e", "t", "-", "p", "i", "c", "k">>
    /\ products[3].id = <<"b", "u", "d", "g", "e", "t", "-", "p", "i", "c", "k", "-", "2">>
    /\ products[2].name # products[3].name

----------------------------------------------------------------------------
(* STEP 2 on one heading                                                   *)

\* pieces a heading is put together from
MaxSegments == 4

\* "Beste", "De beste", "budget", "Krups", " ", "-", " - ", " ndash ", " mdash "
Segments ==
    { <<"B", "e", "s", "t", "e">>,
      <<"D", "e", " ", "b", "e", "s", "t", "e">>,
      <<"b", "u", "d", "g", "e", "t">>,
      <<"K", "r", "u", "p", "s">>,
      <<" ">>, <<"-">>,
      <<" ", "-", " ">>, <<" ", "ndash", " ">>, <<" ", "mdash", " ">> }

RECURSIVE Concat(_)
Concat(ss) == IF ss = <<>> THEN <<>> ELSE Head(ss) \o Concat(Tail(ss))

Headings == { Concat(ss) : ss \in UNION { [1..n -> Segments] : n \in 0..MaxSegments } }

SplitInit ==
    /\ pc = "h2"
    /\ error = Null
    /\ PaaIdle
    /\ FetchIdle
    /\ CallIdle
    /\ title_label = Null /\ name = <<>> /\ id = <<>>
    /\ rank = 0 /\ summary = <<>> /\ pros = <<>> /\ tags = <<>> /\ products = <<>>
    /\ ContainerIdle
    /\ h2 \in Headings

ExtractTitleAndLabel ==
    /\ pc = "h2"
    /\ title_label' = SplitTitle(h2).title_label
    /\ name' = SplitTitle(h2).name
    /\ pc' = "split"
    /\ UNCHANGED <<paaVars, error, fetchVars, callVars,
                   h2, id, rank, summary, pros, tags, products,
                   container, product>>

SplitNext == ExtractTitleAndLabel

SpecSplit == SplitInit /\ [][SplitNext]_vars

----------------------------------------------------------------------------
(* STEP 6 on one product                                                   *)

\* ranks on a page
MaxRank == 2

\* entries of a pros list
MaxPros == 2

\* "Budgetkeuze", "BUDGET premium", "Luxe keuze", "Beste koop", "Beste"
Labels ==
    { <<"B", "u", "d", "g", "e", "t", "k", "e", "u", "z", "e">>,
      <<"B", "U", "D", "G", "E", "T", " ", "p", "r", "e", "m", "i", "u", "m">>,
      <<"L", "u", "x", "e", " ", "k", "e", "u", "z", "e">>,
      <<"B", "e", "s", "t", "e", " ", "k", "o", "o", "p">>,
      <<"B", "e", "s", "t", "e">> }

\* "", "De beste prijs-kwaliteit", "budget premium" (no label words count here),
\* "Sterkste Keuze Binnen bereik"
Summaries ==
    { <<>>,
      <<"D", "e", " ", "b", "e", "s", "t", "e", " ", "p", "r", "i", "j", "s", "-", "k", "w", "a", "l", "i", "t", "e", "i", "t">>,
      <<"b", "u", "d", "g", "e", "t", " ", "p", "r", "e", "m", "i", "u", "m">>,
      <<"S", "t", "e", "r", "k", "s", "t", "e", " ", "K", "e", "u", "z", "e", " ", "B", "i", "n", "n", "e", "n", " ", "b", "e", "r", "e", "i", "k">> }

\* "Stil", "Beste keuze voor je geld"
Bullets ==
    { <<"S", "t", "i", "l">>,
      <<"B", "e", "s", "t", "e", " ", "k", "e", "u", "z", "e", " ", "v", "o", "o", "r", " ", "j", "e", " ", "g", "e", "l", "d">> }

TagsInit ==
    /\ pc = "product"
    /\ error = Null
    /\ PaaIdle
    /\ FetchIdle
    /\ CallIdle
    /\ h2 = <<>> /\ name = <<>> /\ id = <<>> /\ tags = <<>> /\ products = <<>>
    /\ ContainerIdle
    /\ rank \in 1..MaxRank
    /\ title_label \in {Null} \cup { Some(l) : l \in Labels }
    /\ summary \in Summaries
    /\ pros \in UNION { [1..n -> Bullets] : n \in 0..MaxPros }

TagProduct ==
    /\ pc = "product"
    /\ tags' = Tagging(rank, title_label, summary, pros)
    /\ pc' = "tagged"
    /\ UNCHANGED <<paaVars, error, fetchVars, callVars,
                   h2, title_label, name, id, rank, summary, pros, products,
                   container, product>>

TagsNext == TagProduct

SpecTags == TagsInit /\ [][TagsNext]_vars

----------------------------------------------------------------------------
(* Properties of STEP 2 and STEP 6                                         *)

\* s[i..] begins with w, letter case ignored
OccursAt(s, i, w) ==
    /\ i + Len(w) - 1 <= Len(s)
    /\ \A k \in 1..Len(w) : Lower(s[i + k - 1]) = Lower(w[k])

Occurs(s, w) == \E i \in 1..Len(s) : OccursAt(s, i, w)

\* a dash of the given kinds, surrounded by spaces, starts at i, and none earlier
FirstSpacedDash(h, i, dashes) ==
    LET spaced(j) == j + 2 <= Len(h) /\ h[j] = " " /\ h[j + 1] \in dashes /\ h[j + 2] = " "
    IN  spaced(i) /\ \A j \in 1..(i - 1) : ~ spaced(j)

\* the title/label split as stated, for the given kinds of dash
SplitAsStated(dashes) ==
    pc = "split" =>
        IF \E i \in 1..Len(h2) :
                /\ FirstSpacedDash(h2, i, dashes)
                /\ \E q \in DOMAIN QUALIFIERS : OccursAt(Strip(SubSeq(h2, 1, i - 1)), 1, QUALIFIERS[q])
        THEN LET i == CHOOSE j \in 1..Len(h2) : FirstSpacedDash(h2, j, dashes)
             IN  /\ title_label = Some(Strip(SubSeq(h2, 1, i - 1)))
                 /\ name = Strip(SubSeq(h2, i + 3, Len(h2)))
        ELSE title_label = Null /\ name = Strip(h2)

\* C7 as stated: the heading is split at the first plain hyphen, en dash or em
\* dash surrounded by spaces; title_label = left and name = right exactly when
\* left starts with a qualifier, else title_label is null and name is the heading.
C7_SplitOnHyphenEnOrEmDash == SplitAsStated({"-", "ndash", "mdash"})

\* C7 amended: the same, the dash being a plain hyphen or an en dash; an em dash
\* does not split the heading.
C7_SplitOnHyphenOrEnDash == SplitAsStated({"-", "ndash"})

\* C7 witness: a labelled heading with two spaced dashes, split at the first
C7_Witness ==
    /\ pc = "split"
    /\ title_label # Null
    /\ \E i \in 1..Len(h2) : \E j \in (i + 1)..Len(h2) :
            FirstSpacedDash(h2, i, {"-", "ndash"}) /\ DashAt(h2, j)

TagOrder == <<"best_overall", "budget_pick", "premium_pick", "best_value">>

\* the tags the four rules select for the product
SelectedTags ==
    (IF rank = 1 THEN {"best_overall"} ELSE {})
    \cup (IF title_label # Null /\ Occurs(title_label[1], <<"b", "u", "d", "g", "e", "t">>)
          THEN {"budget_pick"} ELSE {})
    \cup (IF title_label # Null
               /\ (\/ Occurs(title_label[1], <<"l", "u", "x", "e">>)
                   \/ Occurs(title_label[1], <<"p", "r", "e", "m", "i", "u", "m">>))
          THEN {"premium_pick"} ELSE {})
    \cup (IF \E p \in DOMAIN VALUE_PHRASES :
                \/ (title_label # Null /\ Occurs(title_label[1], VALUE_PHRASES[p]))
                \/ Occurs(summary, VALUE_PHRASES[p])
                \/ \E b \in DOMAIN pros : Occurs(pros[b], VALUE_PHRASES[p])
          THEN {"best_value"} ELSE {})

\* C8: tags is exactly the set the four rules select, in rule order, from the
\* closed vocabulary; a null title_label yields neither budget_pick nor
\* premium_pick.
C8_TagsAreTheSelectedOnes ==
    pc = "tagged" =>
        /\ tags = SelectSeq(TagOrder, LAMBDA t : t \in SelectedTags)
        /\ (title_label = Null => \A i \in DOMAIN tags : tags[i] \in {"best_overall", "best_value"})

\* C8 witness: no title_label, best_value through a pros entry alone
C8_Witness ==
    /\ pc = "tagged"
    /\ title_label = Null
    /\ ~ HasValuePhrase(summary)
    /\ tags = <<"best_overall", "best_value">>

----------------------------------------------------------------------------
(* extract_products                                                        *)

\* characters of a response text
MaxTextLen == 4

PayloadChars == {"BQ", "\n", " ", "j", "{", "}", "1"}

\* JSON documents: 1, 11, {}, { }, {newline}
JsonDocs ==
    { <<"1">>, <<"1", "1">>, <<"{", "}">>, <<"{", " ", "}">>, <<"{", "\n", "}">> }

Blanks == { <<>>, <<" ">>, <<"\n">> }

LanguageTags == { <<>>, <<"j", "s", "o", "n">> }

\* doc in an opening fence line and a closing fence, whitespace around and inside
Fenced(before, tag, lead, doc, trail, after) ==
    before \o FENCE \o tag \o <<"\n">> \o lead \o doc \o trail \o FENCE \o after

FencedTexts ==
    { Fenced(w[1], t, w[2], d, w[3], w[4]) :
        w \in Blanks \X Blanks \X Blanks \X Blanks, t \in LanguageTags, d \in JsonDocs }

ResponseTexts ==
    UNION { [1..n -> PayloadChars] : n \in 0..MaxTextLen } \cup FencedTexts

CallInit ==
    /\ pc = "call"
    /\ error = Null
    /\ PaaIdle
    /\ FetchIdle
    /\ RuleIdle
    /\ environ \in BOOLEAN
    /\ _client = Null /\ constructions = 0
    /\ creates = 0 /\ backend = Null /\ calls = <<>>
    /\ message = Null
    /\ result = Null

\* lines 174-186: _get_client(), then the request is sent
SendRequest ==
    /\ pc = "call"
    /\ LET got == GetClient(_client, environ, constructions) IN
        /\ _client' = got._client
        /\ constructions' = got.constructions
        /\ IF got.raised
           THEN /\ error' = Some(Raised("KeyError", Null))
                /\ pc' = "raised"
                /\ UNCHANGED creates
           ELSE /\ creates' = creates + 1
                /\ pc' = "awaiting"
                /\ UNCHANGED error
    /\ UNCHANGED <<paaVars, fetchVars, ruleVars, environ, backend, calls, message, result>>

\* line 176: the attempt fails with an error the client retries (connection
\* error, 408, 409, 429, 5xx) and the client, constructed at line 168 with its
\* default max_retries, sends the request again
RetryRequest ==
    /\ pc = "awaiting"
    /\ creates < 1 + DEFAULT_MAX_RETRIES
    /\ creates' = creates + 1
    /\ UNCHANGED <<paaVars, pc, error, fetchVars, ruleVars,
                   environ, _client, constructions, backend, calls, message, result>>

\* line 176: the request fails (connection, timeout, error status) and
\* messages.create raises
RequestRaises ==
    /\ pc = "awaiting"
    /\ error' = Some(Raised("APIError", Null))
    /\ pc' = "raised"
    /\ UNCHANGED <<paaVars, fetchVars, ruleVars, callVars>>

\* lines 176-197: the response arrives and is unfenced and parsed
ReceiveResponse ==
    /\ pc = "awaiting"
    /\ \E blocks \in {<<>>} \cup { <<t>> : t \in ResponseTexts } :
            /\ message' = Some([content |-> blocks])
            /\ result' = Parse(blocks).result
            /\ error' = Parse(blocks).error
            /\ pc' = (IF Parse(blocks).error = Null THEN "returned" ELSE "raised")
    /\ UNCHANGED <<paaVars, fetchVars, ruleVars, environ, _client, constructions, creates, backend, calls>>

CallNext == SendRequest \/ RetryRequest \/ RequestRaises \/ ReceiveResponse

SpecCall == CallInit /\ [][CallNext]_vars

----------------------------------------------------------------------------
(* Properties of extract_products                                          *)

\* C9: a JSON document in an opening fence line (with or without a language
\* tag) and a closing fence, with any surrounding whitespace, yields the same
\* parsed result as the document alone.
C9_FencedParsesLikeBare ==
    (message # Null /\ message[1].content # <<>> /\ message[1].content[1] \in FencedTexts) =>
        \A w \in Blanks \X Blanks \X Blanks \X Blanks : \A t \in LanguageTags : \A d \in JsonDocs :
            (message[1].content[1] = Fenced(w[1], t, w[2], d, w[3], w[4]))
                => /\ pc = "returned"
                   /\ error = Null
                   /\ result = Parse(<<d>>).result
                   /\ result # Null

\* C9 witness: a fenced document with a language tag and whitespace around it
\* has been parsed
C9_Witness ==
    /\ pc = "returned"
    /\ \E d \in JsonDocs :
            message = Some([content |->
                <<Fenced(<<" ">>, <<"j", "s", "o", "n">>, <<>>, d, <<"\n">>, <<"\n">>)>>])

\* C10: once the backend has answered with a text, the call ends with a parsed record or
\* with an ExtractionError (json's decode error, granted that name), and with no
\* other kind of error; a failed request never ends as an ExtractionError.
C10_PayloadProblemsAreExtractionErrors ==
    /\ (message # Null /\ message[1].content # <<>> /\ pc \in {"returned", "raised"}) =>
            \/ pc = "returned" /\ result # Null /\ error = Null
            \/ /\ pc = "raised" /\ result = Null /\ error # Null
               /\ error[1].type \in {"ExtractionError", "JSONDecodeError"}
    /\ (message = Null /\ pc = "raised") =>
            error[1].type \notin {"ExtractionError", "JSONDecodeError"}

----------------------------------------------------------------------------
(* One fetch_and_clean call, then one extract_products call                *)

RunsInit ==
    /\ pc = "fetch"
    /\ error = Null
    /\ PaaIdle
    /\ FetchIdle
    /\ RuleIdle
    /\ environ \in BOOLEAN
    /\ _client = Null /\ constructions = 0
    /\ creates = 0 /\ backend = Null /\ calls = <<>>
    /\ message = Null /\ result = Null

\* the caller passes the cleaned markup on to extract_products
CallExtractProducts ==
    /\ pc = "cleaned"
    /\ pc' = "call"
    /\ UNCHANGED <<paaVars, error, fetchVars, ruleVars, callVars>>

RunsNext ==
    \/ FetchAndClean \/ FetchRaises \/ CallExtractProducts
    \/ SendRequest \/ RetryRequest \/ RequestRaises \/ ReceiveResponse

SpecRuns == RunsInit /\ [][RunsNext]_vars

\* C12: a fetch_and_clean call that has ended issued exactly one page fetch,
\* an extract_products call that got its client and has gone on issued exactly
\* one generation request, and neither ever issues a second one.
C12_OneFetchOneRequest ==
    /\ gets <= 1
    /\ creates <= 1
    /\ pc # "fetch" => gets = 1
    /\ (pc \in {"awaiting", "returned"} \/ message # Null
            \/ (pc = "raised" /\ error[1].type = "APIError")) => creates = 1

----------------------------------------------------------------------------
(* Concurrent invocations on one event loop                                *)
(*                                                                         *)
(* A coroutine runs without interruption up to its await: fetch_and_clean  *)
(* suspends at client.get (line 28), extract_products at messages.create   *)
(* (line 176).  calls holds the locals of each invocation, in the order of *)
(* invocation.                                                             *)

\* invocations in one process
MaxCalls == 3

\* two response bodies: <title> t</title>, and <main></main>
TitleDoc ==
    <<NodeAt(Element("title", Null, FALSE), 1, 1), NodeAt(Element("#text", Null, FALSE), 2, 2)>>
MainDoc == <<NodeAt(Element("main", Null, FALSE), 1, 1)>>

Bodies == {TitleDoc, MainDoc}

Urls == {"https://a.example/"}

\* what one client.get(url) can end with
FetchOutcomes ==
    { [resp |-> TimedOut, body |-> <<>>],
      [resp |-> Answered(404), body |-> MainDoc],
      [resp |-> Answered(200), body |-> TitleDoc] }

\* arguments of extract_products
ExtractArgs == { [html |-> CleanedMarkup(b), url |-> u] : b \in Bodies, u \in Urls }

\* texts a backend answers with: a fenced document, and no JSON
Answers == { Fenced(<<>>, <<>>, <<>>, <<"{", "}">>, <<"\n">>, <<>>), <<"j">> }

\* deterministic stubs: the answer is a function of the request
Stubs == [ExtractArgs -> Answers]

\* the locals of a coroutine suspended at its await
Suspended(fn, arg, seen, client) ==
    [fn |-> fn, arg |-> arg, env |-> environ, seen |-> seen, client |-> client,
     pc |-> "awaiting", answer |-> Null, result |-> Null, error |-> Null]

\* the call has ended: what it returned or raised
Ended(call, answer, outcome) ==
    [call EXCEPT !.pc = IF outcome.error = Null THEN "returned" ELSE "raised",
                 !.answer = answer, !.result = outcome.result, !.error = outcome.error]

\* fetcher.py lines 29-55 on the response
FetchOutcome(o) ==
    IF o.resp.timed_out THEN Raises("TimeoutException", Null)
    ELSE IF ~ IsSuccess(o.resp.status_code) THEN Raises("HTTPStatusError", Null)
    ELSE Returns(<<CleanedMarkup(o.body), PageTitle(o.body)>>)

ConcurrentInit ==
    /\ pc = "loop"
    /\ error = Null
    /\ PaaIdle
    /\ FetchIdle
    /\ RuleIdle
    /\ environ \in BOOLEAN
    /\ _client = Null /\ constructions = 0
    /\ creates = 0 /\ backend = Null /\ calls = <<>>
    /\ message = Null /\ result = Null

\* fetch_and_clean(url) is called and runs to client.get
InvokeFetch ==
    /\ Len(calls) < MaxCalls
    /\ \E u \in Urls :
            calls' = Append(calls, Suspended("fetch_and_clean", u, Null, Null))
    /\ UNCHANGED <<paaVars, pc, error, fetchVars, ruleVars,
                   environ, _client, constructions, creates, backend, message, result>>

\* extract_products(html, url) is called with one of these arguments:
\* _get_client(), then it runs to messages.create, or raises the KeyError of
\* line 168
InvokeExtractWith(args) ==
    /\ Len(calls) < MaxCalls
    /\ LET got == GetClient(_client, environ, constructions) IN
        /\ _client' = got._client
        /\ constructions' = got.constructions
        /\ \E a \in args :
            LET c == Suspended("extract_products", a, _client, got._client) IN
            calls' = Append(calls,
                        IF got.raised THEN Ended(c, Null, Raises("KeyError", Null)) ELSE c)
    /\ UNCHANGED <<paaVars, pc, error, fetchVars, ruleVars, environ, creates, backend, message, result>>

\* concurrent extractions of one page
InvokeExtract ==
    InvokeExtractWith({ [html |-> CleanedMarkup(TitleDoc), url |-> u] : u \in Urls })

\* an extraction of one of several inputs
InvokeExtractOfInput == InvokeExtractWith(ExtractArgs)

\* client.get of one suspended fetch_and_clean ends; lines 29-55 follow
FetchResumes ==
    /\ \E i \in DOMAIN calls :
        /\ calls[i].pc = "awaiting" /\ calls[i].fn = "fetch_and_clean"
        /\ \E o \in FetchOutcomes :
                calls' = [calls EXCEPT ![i] = Ended(calls[i], Some(o), FetchOutcome(o))]
    /\ UNCHANGED <<paaVars, pc, error, fetchVars, ruleVars,
                   environ, _client, constructions, creates, backend, message, result>>

\* messages.create of one suspended extract_products returns; lines 188-197 follow
ExtractResumes ==
    /\ \E i \in DOMAIN calls :
        /\ calls[i].pc = "awaiting" /\ calls[i].fn = "extract_products"
        /\ \E t \in (IF backend = Null THEN Answers ELSE {backend[1][calls[i].arg]}) :
                calls' = [calls EXCEPT ![i] = Ended(calls[i], Some(<<t>>), Parse(<<t>>))]
    /\ UNCHANGED <<paaVars, pc, error, fetchVars, ruleVars,
                   environ, _client, constructions, creates, backend, message, result>>

\* messages.create of one suspended extract_products raises
ExtractRequestRaises ==
    /\ \E i \in DOMAIN calls :
        /\ calls[i].pc = "awaiting" /\ calls[i].fn = "extract_products"
        /\ calls' = [calls EXCEPT ![i] = Ended(calls[i], Null, Raises("APIError", Null))]
    /\ UNCHANGED <<paaVars, pc, error, fetchVars, ruleVars,
                   environ, _client, constructions, creates, backend, message, result>>

\* the process environment changes: the key of line 168 is set or removed
EnvironChanges ==
    /\ environ' = ~ environ
    /\ UNCHANGED <<paaVars, pc, error, fetchVars, ruleVars,
                   _client, constructions, creates, backend, calls, message, result>>

ConcurrentNext ==
    \/ InvokeFetch \/ InvokeExtract \/ FetchResumes
    \/ ExtractResumes \/ ExtractRequestRaises \/ EnvironChanges

SpecConcurrent == ConcurrentInit /\ [][ConcurrentNext]_vars

\* extract_products run again and again against a deterministic stub backend
RerunInit ==
    /\ pc = "loop"
    /\ error = Null
    /\ PaaIdle
    /\ FetchIdle
    /\ RuleIdle
    /\ environ \in BOOLEAN
    /\ _client = Null /\ constructions = 0
    /\ creates = 0 /\ calls = <<>>
    /\ message = Null /\ result = Null
    /\ \E stub \in Stubs : backend = Some(stub)

RerunNext == InvokeExtractOfInput \/ ExtractResumes

SpecRerun == RerunInit /\ [][RerunNext]_vars

----------------------------------------------------------------------------
(* Properties of concurrent and repeated invocations                       *)

IsExtract(c) == c.fn = "extract_products"

RaisedKeyError(c) == c.pc = "raised" /\ c.error = Some(Raised("KeyError", Null))

\* C13 as stated: no invocation reads state that another invocation wrote,
\* and an invocation's outcome is what its own inputs give: without the API
\* key an extraction raises, whatever ran before it.
C13_NoSharedState ==
    \A i \in DOMAIN calls :
        IsExtract(calls[i]) =>
            /\ calls[i].seen = Null
            /\ ~ calls[i].env => RaisedKeyError(calls[i])

\* C13: a fetch touches no global and ends as its own response decides; an
\* extraction shares the client global and nothing else: it raises KeyError
\* exactly when it finds no client and no key, uses the client it finds, and
\* once answered ends as its own response decides.
C13_SharesOnlyTheClient ==
    \A i \in DOMAIN calls :
        LET c == calls[i] IN
        /\ ~ IsExtract(c) =>
                /\ c.seen = Null /\ c.client = Null
                /\ c.pc # "awaiting" =>
                        /\ c.result = FetchOutcome(c.answer[1]).result
                        /\ c.error = FetchOutcome(c.answer[1]).error
        /\ IsExtract(c) =>
                /\ RaisedKeyError(c) <=> (c.seen = Null /\ ~ c.env)
                /\ c.seen # Null => c.client = c.seen
                /\ c.answer # Null =>
                        /\ c.result = Parse(c.answer[1]).result
                        /\ c.error = Parse(c.answer[1]).error

\* C13 witness: an extraction started without the key has returned, on the
\* client an earlier invocation left, while a fetch was suspended
C13_Witness ==
    \E i \in DOMAIN calls :
        /\ IsExtract(calls[i])
        /\ ~ calls[i].env
        /\ calls[i].seen # Null
        /\ calls[i].pc = "returned"
        /\ \E j \in 1..(i - 1) : ~ IsExtract(calls[j]) /\ calls[j].pc = "awaiting"

\* the extraction invoked next after invocation i, 0 if none
NextExtract(i) ==
    LET later == { j \in (i + 1)..Len(calls) : IsExtract(calls[j]) }
    IN  IF later = {} THEN 0 ELSE CHOOSE j \in later : \A k \in later : j <= k

\* C19: at most one client is ever constructed, every extraction that has a
\* client has that one, and an extraction that raised KeyError left the
\* global unset: the next extraction finds none and constructs it if the key
\* is there.
C19_ClientConstructedOnce ==
    /\ constructions <= 1
    /\ (_client = Null) <=> (constructions = 0)
    /\ \A i \in DOMAIN calls :
        IsExtract(calls[i]) =>
            /\ calls[i].client # Null => calls[i].client = _client
            /\ RaisedKeyError(calls[i]) =>
                /\ calls[i].client = Null
                /\ NextExtract(i) # 0 =>
                    /\ calls[NextExtract(i)].seen = Null
                    /\ calls[NextExtract(i)].env =>
                            /\ calls[NextExtract(i)].client # Null
                            /\ ~ RaisedKeyError(calls[NextExtract(i)])

\* C19 witness: a failed construction, then a construction, then a call that
\* uses the constructed client while the earlier call is still suspended
C19_Witness ==
    /\ Len(calls) = 3
    /\ RaisedKeyError(calls[1])
    /\ calls[2].seen = Null /\ calls[2].client # Null /\ calls[2].pc = "awaiting"
    /\ calls[3].seen # Null /\ calls[3].client = calls[2].client

\* C15: against a deterministic stub, two extractions with the same html and
\* url that have ended have ended alike: the same parsed record, or the same
\* exception.
C15_RerunIsIdentical ==
    \A i \in DOMAIN calls : \A j \in DOMAIN calls :
        (/\ calls[i].arg = calls[j].arg
         /\ calls[i].pc # "awaiting" /\ calls[j].pc # "awaiting") =>
            /\ calls[i].result = calls[j].result
            /\ calls[i].error = calls[j].error

\* C15 witness: the second run found the client of the first and returned the
\* same record, and a run on other input returned something else
C15_Witness ==
    /\ Len(calls) = 3
    /\ calls[1].arg = calls[2].arg
    /\ calls[1].pc = "returned" /\ calls[2].pc = "returned"
    /\ calls[2].seen # Null
    /\ calls[1].result # Null /\ calls[2].result = calls[1].result
    /\ calls[3].arg # calls[1].arg
    /\ calls[3].pc # "awaiting" /\ calls[3].result # calls[1].result

----------------------------------------------------------------------------
(* SYSTEM_PROMPT, STEP 4 and STEP 5: the lists and the paragraph of a       *)
(* product container                                                       *)
(*                                                                         *)
(* A page part is the sequence of its h2, h4, ul and p elements in         *)
(* document order; inside tells whether the element lies in the product    *)
(* container.  All extracted data belongs to the container only (line 38). *)

\* the elements of the product container
InContainer(els) == SelectSeq(els, LAMBDA e : e.inside)

\* the position of the first h4 class="ben_dis_heading", 0 if there is none
RECURSIVE HeadingFrom(_, _)
HeadingFrom(c, i) ==
    IF i > Len(c) THEN 0
    ELSE IF c[i].tag = "h4" /\ c[i].class = "ben_dis_heading" THEN i
    ELSE HeadingFrom(c, i + 1)

\* the position of the first h2, 0 if there is none
RECURSIVE FirstH2From(_, _)
FirstH2From(c, i) ==
    IF i > Len(c) THEN 0
    ELSE IF c[i].tag = "h2" THEN i
    ELSE FirstH2From(c, i + 1)

\* the ul elements after position i, in order
ListsAfter(c, i) == SelectSeq(SubSeq(c, i + 1, Len(c)), LAMBDA e : e.tag = "ul")

\* the non-empty p elements after position i, in order: a p is non-empty
\* when its text is more than whitespace
ParagraphsAfter(c, i) ==
    SelectSeq(SubSeq(c, i + 1, Len(c)), LAMBDA e : e.tag = "p" /\ Strip(e.text) # <<>>)

\* each LI text as an array item; "If a UL is missing: use []"
ItemsOf(lists, k) == IF Len(lists) >= k THEN Some(lists[k].items) ELSE Some(<<>>)

\* STEP 4 with the fallback alone
ProsConsWithoutHeading(els) ==
    LET lists == ListsAfter(InContainer(els), 0)
    IN  [pros |-> ItemsOf(lists, 1), cons |-> ItemsOf(lists, 2)]

\* STEP 4, lines 93-101
ProsCons(els) ==
    LET c == InContainer(els)
        h == HeadingFrom(c, 1)
        lists == ListsAfter(c, h)
    IN  [pros |-> ItemsOf(lists, 1), cons |-> ItemsOf(lists, 2)]

\* STEP 5 taking the first non-empty p of the container
SummaryOfFirstParagraph(els) ==
    LET ps == ParagraphsAfter(InContainer(els), 0)
    IN  IF ps = <<>> THEN Some(<<>>) ELSE Some(Strip(ps[1].text))

\* STEP 5, lines 107-114
SummaryOf(els) ==
    LET c == InContainer(els)
        h == FirstH2From(c, 1)
        ps == IF h = 0 THEN <<>> ELSE ParagraphsAfter(c, h)
    IN  IF ps = <<>> THEN Some(<<>>) ELSE Some(Strip(ps[1].text))

\* elements of a page part
MaxElements == 4

\* n is the number of li of a ul; blank tells a p of whitespace only
ElementKinds ==
    { [tag |-> "h2", class |-> "", n |-> 0, blank |-> FALSE, inside |-> TRUE],
      [tag |-> "h4", class |-> "ben_dis_heading", n |-> 0, blank |-> FALSE, inside |-> TRUE],
      [tag |-> "h4", class |-> "", n |-> 0, blank |-> FALSE, inside |-> TRUE],
      [tag |-> "ul", class |-> "", n |-> 0, blank |-> FALSE, inside |-> TRUE],
      [tag |-> "ul", class |-> "", n |-> 1, blank |-> FALSE, inside |-> TRUE],
      [tag |-> "p", class |-> "", n |-> 0, blank |-> TRUE, inside |-> TRUE],
      [tag |-> "p", class |-> "", n |-> 0, blank |-> FALSE, inside |-> TRUE],
      [tag |-> "ul", class |-> "", n |-> 1, blank |-> FALSE, inside |-> FALSE],
      [tag |-> "p", class |-> "", n |-> 0, blank |-> FALSE, inside |-> FALSE] }

\* the element of that kind at position i: its text and li texts name i
ElementAt(kind, i) ==
    [tag |-> kind.tag, class |-> kind.class, inside |-> kind.inside,
     text |-> IF kind.blank THEN <<" ">> ELSE <<" ", TextChars[i], "\n">>,
     items |-> [k \in 1..kind.n |-> <<TextChars[i]>>]]

ContainerInit ==
    /\ pc = "container"
    /\ error = Null
    /\ PaaIdle
    /\ FetchIdle
    /\ CallIdle
    /\ h2 = <<>> /\ title_label = Null /\ name = <<>> /\ id = <<>>
    /\ rank = 0 /\ summary = <<>> /\ pros = <<>> /\ tags = <<>> /\ products = <<>>
    /\ ContainerIdle

\* the page part, one element at a time
ServeElement ==
    /\ pc = "container"
    /\ Len(container) < MaxElements
    /\ \E kind \in ElementKinds :
            container' = Append(container, ElementAt(kind, Len(container) + 1))
    /\ UNCHANGED <<paaVars, pc, error, fetchVars, callVars, h2, title_label, name, id, rank,
                   summary, pros, tags, products, product>>

\* STEP 4
ExtractProsAndCons ==
    /\ pc = "container"
    /\ product' = [product EXCEPT !.pros = ProsCons(container).pros,
                                  !.cons = ProsCons(container).cons]
    /\ pc' = "lists"
    /\ UNCHANGED <<paaVars, error, fetchVars, callVars, h2, title_label, name, id, rank,
                   summary, pros, tags, products, container>>

\* STEP 5
ExtractSummary ==
    /\ pc = "lists"
    /\ product' = [product EXCEPT !.summary = SummaryOf(container)]
    /\ pc' = "product"
    /\ UNCHANGED <<paaVars, error, fetchVars, callVars, h2, title_label, name, id, rank,
                   summary, pros, tags, products, container>>

ContainerNext == ServeElement \/ ExtractProsAndCons \/ ExtractSummary

SpecContainer == ContainerInit /\ [][ContainerNext]_vars

----------------------------------------------------------------------------
(* Properties of STEP 4 and STEP 5                                         *)

Inside(tagName) ==
    { i \in 1..Len(container) : container[i].inside /\ container[i].tag = tagName }

Least(S) == CHOOSE i \in S : \A j \in S : i <= j

\* the lists of the container that count: those after the first marked
\* heading if there is one, else all of them
CountedLists ==
    LET marked == { i \in Inside("h4") : container[i].class = "ben_dis_heading" }
    IN  IF marked = {} THEN Inside("ul")
        ELSE { i \in Inside("ul") : i > Least(marked) }

\* C16: pros and cons are sequences, never null: pros the li texts of the
\* first counted list and cons those of the second, each empty when that
\* list is missing.
C16_ProsAndConsAlwaysSequences ==
    pc \in {"lists", "product"} =>
        LET L == CountedLists IN
        /\ product.pros # Null /\ product.cons # Null
        /\ product.pros[1] = (IF L = {} THEN <<>> ELSE container[Least(L)].items)
        /\ product.cons[1] = (IF Cardinality(L) < 2 THEN <<>>
                              ELSE container[Least(L \ {Least(L)})].items)
        /\ Inside("ul") = {} => (product.pros = Some(<<>>) /\ product.cons = Some(<<>>))

\* C16 witness: a list before the marked heading, one list after it, and a
\* list outside the container: pros is the one after, cons is empty
C16_Witness ==
    /\ pc = "lists"
    /\ Len(container) = 4
    /\ container[1].tag = "ul" /\ container[1].inside /\ container[1].items # <<>>
    /\ container[2].tag = "h4" /\ container[2].class = "ben_dis_heading"
    /\ container[3].tag = "ul" /\ container[3].inside /\ container[3].items # <<>>
    /\ container[4].tag = "ul" /\ ~ container[4].inside
    /\ product.pros = Some(container[3].items)
    /\ product.cons = Some(<<>>)

\* the paragraphs of the container after its first h2 that hold more than
\* whitespace
ParagraphsAfterHeading ==
    IF Inside("h2") = {} THEN {}
    ELSE { i \in Inside("p") : i > Least(Inside("h2")) /\ Strip(container[i].text) # <<>> }

\* C17: summary is the trimmed text of the first non-empty paragraph after
\* the first h2 of the container, of that one paragraph alone, and the empty
\* string when there is none; it is never the text of a paragraph before the
\* h2 or outside the container.
C17_SummaryIsFirstParagraphAfterHeading ==
    pc = "product" =>
        /\ product.summary # Null
        /\ product.summary[1] =
                (IF ParagraphsAfterHeading = {} THEN <<>>
                 ELSE Strip(container[Least(ParagraphsAfterHeading)].text))
        /\ \A i \in 1..Len(container) :
                (/\ container[i].tag = "p"
                 /\ (~ container[i].inside
                        \/ Inside("h2") = {} \/ i < Least(Inside("h2"))))
                    => product.summary[1] # Strip(container[i].text)
                            \/ Strip(container[i].text) = <<>>

\* C17 witness: a paragraph before the h2, a blank one after it, then the
\* paragraph that is the summary
C17_Witness ==
    /\ pc = "product"
    /\ Len(container) = 4
    /\ container[1].tag = "p" /\ container[1].inside /\ Strip(container[1].text) # <<>>
    /\ container[2].tag = "h2"
    /\ container[3].tag = "p" /\ container[3].inside /\ Strip(container[3].text) = <<>>
    /\ container[4].tag = "p" /\ container[4].inside
    /\ product.summary = Some(<<TextChars[4]>>)

----------------------------------------------------------------------------
(* app.py: scrape_people_also_ask                                          *)
(*                                                                         *)
(* The items of a response are drawn as the loop reaches them.  An item    *)
(* holds its question, its next_page_token, and whether parse_question     *)
(* raises on it (a question of None with a keyword given).  Of an entry of *)
(* results only the question is kept.                                      *)

\* items of one response
MaxItems == 4

\* the largest max_results a caller passes
MaxResultsArg == 5

\* tokens_to_expand[:3]
EXPANSION_LIMIT == 3

Questions == {"q1", "q2", "q3", "q4", "q5"}

\* the next_page_token that comes with a question
TokenOf(q) ==
    CASE q = "q1" -> "t1" [] q = "q2" -> "t2" [] q = "q3" -> "t3"
      [] q = "q4" -> "t4" [] OTHER -> "t5"

Item(q, t, raises) == [question |-> q, next_page_token |-> t, raises |-> raises]

Items ==
    { Item("", "", FALSE), Item("", "", TRUE) }
        \cup { Item(q, t, FALSE) : q \in Questions, t \in {"", "t1", "t2", "t3", "t4", "t5"} }

\* the items a response can hold: a question comes with its own token or none
ResponseItems == { it \in Items : it.next_page_token \in {"", TokenOf(it.question)} }

\* lines 562 and 594 without the test against seen_questions
IsNewIgnoringSeen(question, seen) == question # ""

\* lines 562 and 594: parsed["question"] and parsed["question"] not in seen_questions
IsNew(question, seen) == question # "" /\ question \notin seen

\* lines 564-571 and 596-603: the entry appended to results
Entry(item) == [question |-> item.question]

ScrapeInit ==
    /\ pc = "scrape"
    /\ error = Null
    /\ FetchIdle
    /\ RuleIdle
    /\ CallIdle
    /\ SERPAPI_KEY \in BOOLEAN
    /\ max_results \in 0..MaxResultsArg
    /\ expand_questions \in BOOLEAN
    /\ results = <<>> /\ seen_questions = {} /\ tokens_to_expand = <<>>
    /\ requests = <<>> /\ skipped = 0 /\ unread = 0

\* lines 530-531
KeyMissing ==
    /\ pc = "scrape"
    /\ ~ SERPAPI_KEY
    /\ error' = Some(Raised("ValueError", Null))
    /\ pc' = "raised"
    /\ UNCHANGED <<fetchVars, ruleVars, callVars, paaVars>>

\* lines 547-548 and 607-609: the search request raises
SearchRaises ==
    /\ pc = "scrape"
    /\ SERPAPI_KEY
    /\ error' = Some(Raised("Exception", Null))
    /\ pc' = "raised"
    /\ UNCHANGED <<fetchVars, ruleVars, callVars, paaVars>>

\* lines 547-558: the search answers; related_questions is the list under
\* that key or else under people_also_ask, of any length
Search ==
    /\ pc = "scrape"
    /\ SERPAPI_KEY
    /\ \E n \in 0..MaxItems : unread' = n
    /\ pc' = "initial"
    /\ UNCHANGED <<error, fetchVars, ruleVars, callVars, SERPAPI_KEY, max_results,
                   expand_questions, results, seen_questions, tokens_to_expand,
                   requests, skipped>>

\* lines 560-573, one item; parse_question raising ends the call (607-609)
InitialItem ==
    /\ pc = "initial"
    /\ unread > 0
    /\ \E item \in ResponseItems :
        IF item.raises
        THEN /\ error' = Some(Raised("Exception", Null))
             /\ pc' = "raised"
             /\ UNCHANGED <<results, seen_questions, tokens_to_expand, unread>>
        ELSE /\ unread' = unread - 1
             /\ IF IsNew(item.question, seen_questions)
                THEN /\ seen_questions' = seen_questions \cup {item.question}
                     /\ results' = Append(results, Entry(item))
                     /\ tokens_to_expand' =
                            IF item.next_page_token # ""
                            THEN Append(tokens_to_expand, item.next_page_token)
                            ELSE tokens_to_expand
                ELSE UNCHANGED <<results, seen_questions, tokens_to_expand>>
             /\ UNCHANGED <<pc, error>>
    /\ UNCHANGED <<fetchVars, ruleVars, callVars, SERPAPI_KEY, max_results,
                   expand_questions, requests, skipped>>

\* line 576, after the initial loop
EndInitial ==
    /\ pc = "initial"
    /\ unread = 0
    /\ pc' = IF expand_questions /\ tokens_to_expand # <<>> THEN "expand" ELSE "returned"
    /\ UNCHANGED <<error, fetchVars, ruleVars, callVars, paaVars>>

\* whether the loop of line 577 goes on to its next token
MoreToExpand ==
    /\ Len(requests) < EXPANSION_LIMIT
    /\ Len(requests) < Len(tokens_to_expand)
    /\ Len(results) < max_results

\* lines 577-588: the next token is requested and answered
Expand ==
    /\ pc = "expand"
    /\ MoreToExpand
    /\ requests' = Append(requests, tokens_to_expand[Len(requests) + 1])
    /\ \E n \in 0..MaxItems : unread' = n
    /\ pc' = "expanding"
    /\ UNCHANGED <<error, fetchVars, ruleVars, callVars, SERPAPI_KEY, max_results,
                   expand_questions, results, seen_questions, tokens_to_expand, skipped>>

\* lines 577-588 and 604-605: the request raises and the token is skipped
ExpandRaises ==
    /\ pc = "expand"
    /\ MoreToExpand
    /\ requests' = Append(requests, tokens_to_expand[Len(requests) + 1])
    /\ skipped' = skipped + 1
    /\ UNCHANGED <<pc, error, fetchVars, ruleVars, callVars, SERPAPI_KEY, max_results,
                   expand_questions, results, seen_questions, tokens_to_expand, unread>>

\* lines 577-579 and 611: no token left, or enough results: return results
EndExpansions ==
    /\ pc = "expand"
    /\ ~ MoreToExpand
    /\ pc' = "returned"
    /\ UNCHANGED <<error, fetchVars, ruleVars, callVars, paaVars>>

\* lines 590-605, one item; parse_question raising skips the rest
ExpansionItem ==
    /\ pc = "expanding"
    /\ unread > 0
    /\ Len(results) < max_results
    /\ \E item \in ResponseItems :
        IF item.raises
        THEN /\ skipped' = skipped + 1
             /\ unread' = 0
             /\ pc' = "expand"
             /\ UNCHANGED <<results, seen_questions>>
        ELSE /\ unread' = unread - 1
             /\ IF IsNew(item.question, seen_questions)
                THEN /\ seen_questions' = seen_questions \cup {item.question}
                     /\ results' = Append(results, Entry(item))
                ELSE UNCHANGED <<results, seen_questions>>
             /\ UNCHANGED <<pc, skipped>>
    /\ UNCHANGED <<error, fetchVars, ruleVars, callVars, SERPAPI_KEY, max_results,
                   expand_questions, tokens_to_expand, requests>>

\* lines 590-592: the items are used up, or results is full
EndExpansion ==
    /\ pc = "expanding"
    /\ unread = 0 \/ Len(results) >= max_results
    /\ unread' = 0
    /\ pc' = "expand"
    /\ UNCHANGED <<error, fetchVars, ruleVars, callVars, SERPAPI_KEY, max_results,
                   expand_questions, results, seen_questions, tokens_to_expand,
                   requests, skipped>>

ScrapeNext ==
    \/ KeyMissing \/ SearchRaises \/ Search \/ InitialItem \/ EndInitial
    \/ Expand \/ ExpandRaises \/ EndExpansions \/ ExpansionItem \/ EndExpansion

SpecScrape == ScrapeInit /\ [][ScrapeNext]_vars

----------------------------------------------------------------------------
(* Properties of scrape_people_also_ask                                    *)

\* C18: the list scrape_people_also_ask returns holds at most max_results
\* entries.
C18_AtMostMaxResults ==
    pc = "returned" => Len(results) <= max_results

IsPrefix(s, t) == Len(s) <= Len(t) /\ SubSeq(t, 1, Len(s)) = s

\* C20: at every point results holds no two entries with the same question
\* and none with an empty question, at most three expansions were requested,
\* for the first tokens in their order, and every step, a skipped expansion
\* included, leaves the entries collected so far where they are.
C20_ResultsGrowWithoutDuplicates ==
    /\ [](/\ \A i \in DOMAIN results : \A j \in DOMAIN results :
                results[i].question = results[j].question => i = j
          /\ \A i \in DOMAIN results : results[i].question # ""
          /\ Len(requests) <= 3
          /\ IsPrefix(requests, tokens_to_expand))
    /\ [][IsPrefix(results, results')]_vars

\* C20 witness: three expansions were requested of four tokens, one of them
\* was skipped, and results grew past the initial questions
C20_Witness ==
    /\ pc = "returned"
    /\ Len(tokens_to_expand) = 4
    /\ Len(requests) = 3
    /\ skipped >= 1
    /\ Len(results) = 5

====
